---- MODULE Spec2Model ----
(***************************************************************************)
(* A model of src/app.py: the Flask handlers generate_images and           *)
(* generate_video, the helper upload_to_gcs, and the external services     *)
(* they call (object storage, the image model, the video model).           *)
(*                                                                         *)
(* Strings are sequences of one-character strings, so that slicing         *)
(* (job_id[:8]), str.split, str.replace and f-string concatenation are     *)
(* computed as Python computes them.  Time is in whole seconds.            *)
(***************************************************************************)
EXTENDS Integers, Sequences, FiniteSets, TLC

\* ------------------------------------------------------------------ bounds
\* Image requests that get as far as drawing a uuid, per run of the server.
MaxJobs == 1
\* Requests arrive while the clock reads at most this many seconds.
MaxClock == 1
\* Seconds the video provider takes to answer a status poll (0 or this, per request).
MaxLatency == 1

\* ------------------------------------------------------- program constants
timeout_seconds == 300
poll_interval == 15
default_num_images == 4
max_num_images == 4
fallback_num_images == 4
job_prefix_len == 8

\* ----------------------------------------------------------------- strings
GS == <<"g", "s", ":", "/", "/">>
GCS_BUCKET_NAME == <<"b", "k", "t">>
OTHER_BUCKET == <<"o", "t", "h">>
Slash == <<"/">>

Min(a, b) == IF a < b THEN a ELSE b

\* s[:n]
Take(s, n) == SubSeq(s, 1, Min(n, Len(s)))
\* s[n:]
Drop(s, n) == SubSeq(s, n + 1, Len(s))

StartsWith(s, p) == Len(p) <= Len(s) /\ SubSeq(s, 1, Len(p)) = p

\* s.replace(old, ""): every non-overlapping occurrence, left to right.
RECURSIVE Replace(_, _)
Replace(s, old) ==
    IF Len(s) < Len(old) \/ Len(old) = 0 THEN s
    ELSE IF StartsWith(s, old) THEN Replace(Drop(s, Len(old)), old)
    ELSE <<Head(s)>> \o Replace(Tail(s), old)

\* s.split(',', 1)[1] when ',' in s, else s
RECURSIVE AfterFirstComma(_)
AfterFirstComma(s) ==
    IF s = <<>> THEN <<>>
    ELSE IF Head(s) = "," THEN Tail(s)
    ELSE AfterFirstComma(Tail(s))

HasComma(s) == \E k \in 1..Len(s) : s[k] = ","

\* s.strip(), for the one whitespace character the inputs use
RECURSIVE LStrip(_)
LStrip(s) == IF s # <<>> /\ Head(s) = " " THEN LStrip(Tail(s)) ELSE s

RECURSIVE RStrip(_)
RStrip(s) ==
    IF s # <<>> /\ s[Len(s)] = " " THEN RStrip(SubSeq(s, 1, Len(s) - 1)) ELSE s

Strip(s) == RStrip(LStrip(s))

\* ------------------------------------------------------------- JSON values
Absent == [t |-> "absent", n |-> 0, s |-> <<>>]
Null == [t |-> "null", n |-> 0, s |-> <<>>]
JInt(k) == [t |-> "int", n |-> k, s |-> <<>>]
\* a float, in tenths: JFloat(25) is 2.5
JFloat(tenths) == [t |-> "float", n |-> tenths, s |-> <<>>]
\* 1e999 parses to float('inf')
JInf == [t |-> "inf", n |-> 0, s |-> <<>>]
JBool(b) == [t |-> "bool", n |-> IF b THEN 1 ELSE 0, s |-> <<>>]
JStr(chars) == [t |-> "str", n |-> 0, s |-> chars]

Digits == {"0", "1", "2", "3", "4", "5", "6", "7", "8", "9"}

DigitVal(c) ==
    CASE c = "0" -> 0 [] c = "1" -> 1 [] c = "2" -> 2 [] c = "3" -> 3
      [] c = "4" -> 4 [] c = "5" -> 5 [] c = "6" -> 6 [] c = "7" -> 7
      [] c = "8" -> 8 [] c = "9" -> 9

RECURSIVE DecimalValue(_)
DecimalValue(ds) ==
    IF ds = <<>> THEN 0
    ELSE 10 * DecimalValue(SubSeq(ds, 1, Len(ds) - 1)) + DigitVal(ds[Len(ds)])

AllDigits(ds) == ds # <<>> /\ \A k \in 1..Len(ds) : ds[k] \in Digits

Ok(k) == [ok |-> TRUE, n |-> k, exc |-> "none"]
Raise(e) == [ok |-> FALSE, n |-> 0, exc |-> e]

\* int(s) for a str: surrounding whitespace and one sign are accepted
IntOfStr(chars) ==
    LET body == Strip(chars)
        neg == body # <<>> /\ Head(body) = "-"
        ds == IF body # <<>> /\ Head(body) \in {"-", "+"} THEN Tail(body) ELSE body
    IN IF AllDigits(ds)
       THEN Ok(IF neg THEN 0 - DecimalValue(ds) ELSE DecimalValue(ds))
       ELSE Raise("ValueError")

\* int(x) for a float given in tenths: truncation toward zero
TruncTenths(x) == IF x >= 0 THEN x \div 10 ELSE 0 - ((0 - x) \div 10)

\* Python's int(v)
PyInt(v) ==
    CASE v.t = "int" -> Ok(v.n)
      [] v.t = "bool" -> Ok(v.n)
      [] v.t = "float" -> Ok(TruncTenths(v.n))
      [] v.t = "inf" -> Raise("OverflowError")
      [] v.t = "str" -> IntOfStr(v.s)
      [] v.t = "null" -> Raise("TypeError")

\* request.json.get(key, default)
Get(v, default) == IF v.t = "absent" THEN default ELSE v

\* ------------------------------------------------------------------ base64
B64Index(c) ==
    CASE c = "B" -> 1 [] c = "O" -> 14 [] c = "V" -> 21
      [] c = "a" -> 26 [] c = "i" -> 34

B64Alphabet == {"B", "O", "V", "a", "i"}

RECURSIVE B64Filter(_)
B64Filter(s) ==
    IF s = <<>> THEN <<>>
    ELSE IF Head(s) \in B64Alphabet THEN <<Head(s)>> \o B64Filter(Tail(s))
    ELSE B64Filter(Tail(s))

RECURSIVE B64Bytes(_)
B64Bytes(s) ==
    IF s = <<>> THEN <<>>
    ELSE LET w == B64Index(s[1]) * 262144 + B64Index(s[2]) * 4096
                  + B64Index(s[3]) * 64 + B64Index(s[4])
         IN <<w \div 65536, (w \div 256) % 256, w % 256>> \o B64Bytes(Drop(s, 4))

\* base64.b64decode(s): characters outside the alphabet are discarded, and a
\* length that is no multiple of four raises binascii.Error
B64Decode(s) ==
    LET f == B64Filter(s)
    IN IF Len(f) % 4 # 0 THEN [ok |-> FALSE, bytes |-> <<>>]
       ELSE [ok |-> TRUE, bytes |-> B64Bytes(f)]

PNG_MAGIC == <<137, 80, 78>>

\* PIL.Image.open succeeds on data that starts as a PNG file starts
PilCanOpen(bytes) == StartsWith(bytes, PNG_MAGIC)

\* ------------------------------------------------------------ object names
\* str(uuid.uuid4()), shortened: the n-th fresh id, longer than job_id[:8]
Uuid(n) == <<"a", "0", "0", "0", "0", "0", "0", ToString(n), "-", "4">>

\* datetime.datetime.now().strftime("%Y-%m-%d_%H-%M-%S"): one atom per second
Strftime(t) == <<ToString(t)>>

\* f"generations/{timestamp}_{job_id[:8]}"
JobFolder(t, jid) == <<"generations/">> \o Strftime(t) \o <<"_">> \o Take(jid, job_prefix_len)

SketchBlob(folder) == folder \o <<"/", "sketches/user-sketch.png">>
PromptBlob(folder) == folder \o <<"/", "prompts/user-prompt.txt">>
\* f"{job_folder_path}/images/generated-image-{i+1}.png", k = i+1
ImageBlob(folder, k) == folder \o <<"/", "images/generated-image-", ToString(k), ".png">>

\* f"gs://{bucket}/{blob}"
GcsUri(bucket, blob) == GS \o bucket \o Slash \o blob
\* f"https://storage.googleapis.com/{bucket}/{blob}"
PublicUrl(bucket, blob) == <<"https://storage.googleapis.com/">> \o bucket \o Slash \o blob

\* what upload_to_gcs returns when the upload succeeds
UploadResult(bucket, blob) ==
    [gcs_uri |-> GcsUri(bucket, blob), public_url |-> PublicUrl(bucket, blob)]

\* f"gs://{GCS_BUCKET_NAME}/{job_folder_path}/videos/"
OutputGcsPrefix(folder) == GS \o GCS_BUCKET_NAME \o Slash \o folder \o <<"/", "videos", "/">>

\* video_gcs_uri.replace(f"gs://{GCS_BUCKET_NAME}/", "") under the public base
PublicVideoUrl(video_gcs_uri) ==
    <<"https://storage.googleapis.com/">> \o GCS_BUCKET_NAME \o Slash
        \o Replace(video_gcs_uri, GS \o GCS_BUCKET_NAME \o Slash)

\* ---------------------------------------------------------------- requests
Body(kind, image_data, prompt, num, uri, jid) ==
    [json |-> kind, image_data |-> image_data, prompt |-> prompt, num_images |-> num,
     selected_image_gcs_uri |-> uri, job_id |-> jid]

EmptyBody == Body("object", Absent, Absent, Absent, Absent, Absent)
\* a body that is a JSON number other than zero
NumberBody == Body("number", Absent, Absent, Absent, Absent, Absent)

\* "data:image/png;base64," followed by the first bytes of a PNG file
PngDataUrl == <<"data:image/png;base64", ",", "i", "V", "B", "O">>
\* the same without the data-URL header
PngRaw == <<"i", "V", "B", "O">>
\* three characters: no multiple of four
BadPadding == <<"i", "V", "B">>
\* decodes, to bytes that are no image
NotAnImage == <<"a", "a", "a", "a">>

ImageDataValues == {Absent, JStr(PngDataUrl), JStr(PngRaw), JStr(BadPadding),
                    JStr(NotAnImage), JInt(7)}
PromptValues == {Absent, JStr(<<" ", "c", "a", "t", " ">>), JInt(7)}
NumImagesValues ==
    {Absent, Null, JInf, JBool(TRUE), JInt(0), JInt(1), JInt(2), JInt(3), JInt(4), JInt(5),
     JInt(0 - 1), JFloat(25), JFloat(5), JFloat(49), JStr(<<" ", "3">>), JStr(<<"x">>),
     JStr(<<"2", ".", "5">>), JStr(<<"1", "0">>)}

\* bodies POSTed to /generate-images: each field varied over its values
ImageBodies ==
    {EmptyBody, NumberBody}
    \cup {Body("object", d, Absent, Absent, Absent, Absent) : d \in ImageDataValues}
    \cup {Body("object", JStr(PngDataUrl), p, Absent, Absent, Absent) : p \in PromptValues}
    \cup {Body("object", JStr(PngDataUrl), Absent, n, Absent, Absent) : n \in NumImagesValues}
    \cup {Body("object", Absent, p, JInt(2), Absent, Absent) : p \in PromptValues}

SomeImageUri == JStr(GcsUri(GCS_BUCKET_NAME, <<"x.png">>))

\* job ids a client may send: ids returned earlier, and strings of its own
JobIdValues(issued) ==
    {Absent, JInt(7), JStr(<<"z", "9">>), JStr(GS \o GCS_BUCKET_NAME)}
    \cup {JStr(j) : j \in issued}

\* bodies POSTed to /generate-video
VideoBodies(issued) ==
    {EmptyBody, NumberBody}
    \cup {Body("object", Absent, Absent, Absent, u, j) :
            u \in {Absent, SomeImageUri}, j \in JobIdValues(issued)}
    \cup {Body("object", Absent, p, Absent, SomeImageUri, JStr(<<"z", "9">>)) :
            p \in PromptValues}

\* `not request.json`
IsFalsy(body) ==
    /\ body.json = "object"
    /\ \A f \in DOMAIN body : f = "json" \/ body[f].t = "absent"

\* ---------------------------------------------------------------- responses
Resp(status, error, raised, jid, images, url) ==
    [status |-> status, error |-> error, raised |-> raised, job_id |-> jid,
     images |-> images, url |-> url]

NoResp == Resp(0, "", "", <<>>, <<>>, <<>>)
\* jsonify({"error": msg}), status
ErrorResp(status, msg) == Resp(status, msg, "", <<>>, <<>>, <<>>)
\* an exception that leaves the handler: the handler returns nothing
Escaped(exc) == Resp(0, "", exc, <<>>, <<>>, <<>>)

\* the long-running operation the video provider hands back
Op(done, response, videos) == [done |-> done, response |-> response, videos |-> videos]
NoOp == Op(FALSE, FALSE, <<>>)

\* ------------------------------------------------------------------- state
VARIABLES
    gemini_image_client,  \* TRUE when the module-level client was created, FALSE when None
    veo_video_client,
    gcs_client,
    now,                  \* the clock, in seconds
    uuids,                \* uuid4() values drawn so far
    jobs,                 \* what generate_images returned: job id and the folder it used
    endpoint,             \* the route being served
    pc,                   \* where the handler stands
    req,                  \* request.json
    user_prompt,
    num_images,
    job_id,
    job_folder_path,
    image_bytes,
    i,                    \* loop index of generate_images
    generated_images,
    operation,
    start_time,
    latency,              \* seconds the provider takes to answer each poll of this request
    calls,                \* calls to storage and to the providers made for this request
    resp                  \* what the handler returned

clientVars == <<gemini_image_client, veo_video_client, gcs_client>>
serverVars == <<now, uuids, jobs>>
localVars == <<user_prompt, num_images, job_id, job_folder_path, image_bytes, i,
               generated_images, operation, start_time>>
vars == <<clientVars, serverVars, endpoint, pc, req, localVars, latency, calls, resp>>

\* one call to storage or to a provider, and how it ended: "ok", or what went wrong
Call(op, arg, result) == [op |-> op, arg |-> arg, result |-> result]

\* The program writes blobs and never reads or deletes them: what a request has
\* put in the bucket is what its successful uploads wrote.
Stored(log) == {log[k].arg : k \in {m \in 1..Len(log) : log[m].op = "upload" /\ log[m].result = "ok"}}

Init ==
    /\ gemini_image_client \in BOOLEAN
    /\ veo_video_client \in BOOLEAN
    /\ gcs_client \in BOOLEAN
    /\ now = 0
    /\ uuids = 0
    /\ jobs = {}
    /\ endpoint = "none"
    /\ pc = "idle"
    /\ req = EmptyBody
    /\ user_prompt = <<>>
    /\ num_images = 0
    /\ job_id = <<>>
    /\ job_folder_path = <<>>
    /\ image_bytes = <<>>
    /\ i = 0
    /\ generated_images = <<>>
    /\ operation = NoOp
    /\ start_time = 0
    /\ latency = 0
    /\ calls = <<>>
    /\ resp = NoResp

\* the handler ends: status and body are in resp
Finish(r) ==
    /\ pc' = "done"
    /\ resp' = r

\* --------------------------------------------------------- generate_images
\* `not request.json or 'image_data' not in request.json`
MissingImageFields(body) == IsFalsy(body) \/ body.image_data.t = "absent"

\* request.json.get('prompt', '').strip()
StripPrompt(v) ==
    LET p == Get(v, JStr(<<>>))
    IN IF p.t = "str" THEN [ok |-> TRUE, s |-> Strip(p.s), exc |-> "none"]
       ELSE [ok |-> FALSE, s |-> <<>>, exc |-> "AttributeError"]

\* the try block around int(request.json.get('num_images', 4))
ValidateNumImages(v) ==
    LET r == PyInt(Get(v, JInt(default_num_images)))
    IN IF r.ok
       THEN IF 1 <= r.n /\ r.n <= max_num_images THEN Ok(r.n) ELSE Ok(fallback_num_images)
       ELSE IF r.exc \in {"ValueError", "TypeError"} THEN Ok(fallback_num_images)
       ELSE Raise(r.exc)

\* the split on ',' and base64.b64decode
DecodeImage(v) ==
    IF v.t # "str" THEN [ok |-> FALSE, bytes |-> <<>>, exc |-> "TypeError"]
    ELSE LET d == B64Decode(IF HasComma(v.s) THEN AfterFirstComma(v.s) ELSE v.s)
         IN IF d.ok THEN [ok |-> TRUE, bytes |-> d.bytes, exc |-> "none"]
            ELSE [ok |-> FALSE, bytes |-> <<>>, exc |-> "binascii.Error"]

\* POST /generate-images, up to the first call to storage
GI_Begin(body) ==
    /\ pc = "idle"
    /\ now <= MaxClock
    /\ endpoint' = "images"
    /\ req' = body
    /\ calls' = <<>>
    /\ UNCHANGED <<clientVars, now, jobs, i, generated_images,
                   operation, start_time, latency>>
    /\ LET p == StripPrompt(body.prompt)
           n == ValidateNumImages(body.num_images)
           d == DecodeImage(body.image_data)
           jid == Uuid(uuids)
           early(r) == /\ Finish(r)
                       /\ UNCHANGED <<uuids, user_prompt, num_images, job_id,
                                      job_folder_path, image_bytes>>
       IN IF ~(gemini_image_client /\ gcs_client)
          THEN early(ErrorResp(500, "Server-side client initialization failed"))
          ELSE IF body.json # "object" THEN early(Escaped("TypeError"))
          ELSE IF MissingImageFields(body)
          THEN early(ErrorResp(400, "Missing image_data in request"))
          ELSE IF ~p.ok THEN early(Escaped(p.exc))
          ELSE IF ~n.ok THEN early(Escaped(n.exc))
          ELSE /\ uuids < MaxJobs
               /\ uuids' = uuids + 1
               /\ user_prompt' = p.s
               /\ num_images' = n.n
               /\ job_id' = jid
               /\ job_folder_path' = JobFolder(now, jid)
               /\ IF d.ok
                  THEN /\ image_bytes' = d.bytes
                       /\ pc' = "gi_sketch"
                       /\ resp' = NoResp
                  ELSE /\ image_bytes' = <<>>
                       /\ Finish(Escaped(d.exc))

\* how upload_to_gcs ends: the blob is stored, or upload_from_string raises (a
\* GoogleAPIError is logged and raised again, anything else passes through)
UploadOutcomes == {"ok", "GoogleAPIError", "Other"}

\* the sketch upload outside the try block: its failure ends the request
GI_UploadSketch_Fatal(outcome) ==
    /\ pc = "gi_sketch"
    /\ calls' = Append(calls, Call("upload", SketchBlob(job_folder_path), outcome))
    /\ IF outcome = "ok" THEN pc' = "gi_prompt" /\ resp' = NoResp
       ELSE Finish(ErrorResp(500, "Unexpected error in image generation"))
    /\ UNCHANGED <<clientVars, serverVars, endpoint, req, localVars, latency>>

\* upload_to_gcs of the sketch: it is stored, or the call raises
GI_UploadSketch(outcome) ==
    /\ pc = "gi_sketch"
    /\ calls' = Append(calls, Call("upload", SketchBlob(job_folder_path), outcome))
    /\ pc' = IF outcome = "ok" THEN "gi_prompt" ELSE "gi_open"
    /\ UNCHANGED <<clientVars, now, uuids, jobs, endpoint, req, localVars, latency, resp>>

\* upload_to_gcs of the prompt; `except Exception: pass` covers both uploads
GI_UploadPrompt(outcome) ==
    /\ pc = "gi_prompt"
    /\ calls' = Append(calls, Call("upload", PromptBlob(job_folder_path), outcome))
    /\ pc' = "gi_open"
    /\ UNCHANGED <<clientVars, now, uuids, jobs, endpoint, req, localVars, latency, resp>>

\* the status and body of each except clause of generate_images
ImagesErrorResp(exc) ==
    IF exc \in {"GoogleAPIError", "ValueError"}
    THEN ErrorResp(500, "Failed to generate images")
    ELSE ErrorResp(500, "Unexpected error in image generation")

\* PIL.Image.open(io.BytesIO(image_bytes)), the first statement of the try block
GI_OpenSketch ==
    /\ pc = "gi_open"
    /\ IF PilCanOpen(image_bytes)
       THEN /\ pc' = "gi_generate"
            /\ i' = 0
            /\ generated_images' = <<>>
            /\ resp' = NoResp
       ELSE /\ Finish(ImagesErrorResp("UnidentifiedImageError"))
            /\ UNCHANGED <<i, generated_images>>
    /\ UNCHANGED <<clientVars, serverVars, endpoint, req, user_prompt, num_images, job_id,
                   job_folder_path, image_bytes, operation, start_time, latency, calls>>

GenerateOutcomes == {"image", "no_candidates", "no_image", "GoogleAPIError", "Other"}

\* the generation call tried again when the provider raises
GI_Generate_Retry(outcome) ==
    /\ pc = "gi_generate"
    /\ calls' = Append(calls, Call("generate_content", <<ToString(i + 1)>>,
                                  IF outcome = "image" THEN "ok" ELSE outcome))
    /\ CASE outcome = "image" -> pc' = "gi_upload" /\ resp' = NoResp
         [] outcome = "GoogleAPIError" -> pc' = "gi_generate" /\ resp' = NoResp
         [] OTHER -> Finish(ErrorResp(500, "Failed to generate images"))
    /\ UNCHANGED <<clientVars, serverVars, endpoint, req, localVars, latency>>

\* one generate_content call of the loop and the checks of its response
GI_Generate(outcome) ==
    /\ pc = "gi_generate"
    /\ calls' = Append(calls, Call("generate_content", <<ToString(i + 1)>>,
                                  IF outcome = "image" THEN "ok" ELSE outcome))
    /\ CASE outcome = "image" -> pc' = "gi_upload" /\ resp' = NoResp
         [] outcome \in {"no_candidates", "no_image"} -> Finish(ImagesErrorResp("ValueError"))
         [] OTHER -> Finish(ImagesErrorResp(outcome))
    /\ UNCHANGED <<clientVars, serverVars, endpoint, req, localVars, latency>>

\* upload_to_gcs of the generated image, the append, and the end of the loop
GI_UploadImage(outcome) ==
    /\ pc = "gi_upload"
    /\ LET blob == ImageBlob(job_folder_path, i + 1)
           up == UploadResult(GCS_BUCKET_NAME, blob)
           imgs == Append(generated_images, up)
       IN /\ calls' = Append(calls, Call("upload", blob, outcome))
          /\ IF outcome = "ok"
             THEN /\ generated_images' = imgs
                  /\ i' = i + 1
                  /\ IF i + 1 < num_images
                     THEN pc' = "gi_generate" /\ resp' = NoResp /\ UNCHANGED jobs
                     ELSE /\ Finish(Resp(200, "", "", job_id, imgs, <<>>))
                          /\ jobs' = jobs \cup {[job_id |-> job_id,
                                                 folder |-> job_folder_path]}
             ELSE /\ Finish(ImagesErrorResp(outcome))
                  /\ UNCHANGED <<generated_images, i, jobs>>
    /\ UNCHANGED <<clientVars, now, uuids, endpoint, req, user_prompt, num_images,
                   job_id, job_folder_path, image_bytes, operation, start_time, latency>>

\* ---------------------------------------------------------- generate_video
\* the required-field check with the test for 'job_id' left out
MissingVideoFields_NoJobId(body) ==
    \/ IsFalsy(body)
    \/ body.selected_image_gcs_uri.t = "absent"

\* `not request.json or 'selected_image_gcs_uri' not in request.json
\*  or 'job_id' not in request.json`
MissingVideoFields(body) ==
    \/ IsFalsy(body)
    \/ body.selected_image_gcs_uri.t = "absent"
    \/ body.job_id.t = "absent"

\* job_id[:8] inside the f-string: a job_id that is a number cannot be sliced
SliceJobId(v) ==
    IF v.t = "str" THEN [ok |-> TRUE, s |-> v.s, exc |-> "none"]
    ELSE [ok |-> FALSE, s |-> <<>>, exc |-> "TypeError"]

\* POST /generate-video, up to the call to the video provider
GV_Begin(body) ==
    /\ pc = "idle"
    /\ now <= MaxClock
    /\ endpoint' = "video"
    /\ req' = body
    /\ calls' = <<>>
    /\ UNCHANGED <<clientVars, serverVars, num_images, image_bytes, i, generated_images,
                   operation, start_time, latency>>
    /\ LET p == StripPrompt(body.prompt)
           j == SliceJobId(body.job_id)
           early(r) == /\ Finish(r)
                       /\ UNCHANGED <<user_prompt, job_id, job_folder_path>>
       IN IF ~(veo_video_client /\ gcs_client)
          THEN early(ErrorResp(500, "Server-side client initialization failed"))
          ELSE IF body.json # "object" THEN early(Escaped("TypeError"))
          ELSE IF MissingVideoFields(body)
          THEN early(ErrorResp(400, "Missing selected_image_gcs_uri or job_id in request"))
          ELSE IF ~p.ok THEN early(Escaped(p.exc))
          ELSE IF ~j.ok THEN early(Escaped(j.exc))
          ELSE /\ user_prompt' = p.s
               /\ job_id' = j.s
               /\ job_folder_path' = JobFolder(now, j.s)
               /\ pc' = "gv_generate"
               /\ resp' = NoResp

\* the except clauses with TimeoutError taken by the generic clause
VideoErrorResp_TimeoutAs500(exc) ==
    CASE exc = "GoogleAPIError" -> ErrorResp(500, "Failed to generate video")
      [] exc = "ValueError" -> ErrorResp(500, "Failed to generate video")
      [] OTHER -> ErrorResp(500, "Unexpected error in video generation")

\* the status and body of each except clause of generate_video
VideoErrorResp(exc) ==
    CASE exc = "GoogleAPIError" -> ErrorResp(500, "Failed to generate video")
      [] exc = "TimeoutError" -> ErrorResp(504, "Failed to generate video")
      [] exc = "ValueError" -> ErrorResp(500, "Failed to generate video")
      [] OTHER -> ErrorResp(500, "Unexpected error in video generation")

\* exceptions a call to the provider may raise, by the except clause that takes them
ProviderErrors == {"GoogleAPIError", "TimeoutError", "Other"}

Latencies == {0, MaxLatency}

\* videos the provider may report: under the prefix it was asked to write to (one
\* or two of them), in a bucket of its own choosing, or with no uri at all
VideoLists(prefix) ==
    {<<JStr(prefix \o <<"1", "/", "sample_0.mp4">>)>>,
     <<JStr(prefix \o <<"1", "/", "sample_0.mp4">>), JStr(prefix \o <<"1", "/", "sample_1.mp4">>)>>,
     <<JStr(GcsUri(OTHER_BUCKET, <<"sample_0.mp4">>))>>,
     <<Null>>}

\* what the provider may report of the operation
OpStates(prefix) ==
    {Op(FALSE, FALSE, <<>>), Op(TRUE, FALSE, <<>>), Op(TRUE, TRUE, <<>>)}
    \cup {Op(TRUE, TRUE, vs) : vs \in VideoLists(prefix)}

\* how a call to the video provider ends: it raises, or it returns an operation
ProviderOutcomes(prefix) ==
    {[exc |-> e, op |-> NoOp] : e \in ProviderErrors}
    \cup {[exc |-> "none", op |-> o] : o \in OpStates(prefix)}

\* veo_video_client.models.generate_videos(...), then start_time = time.time()
GV_GenerateVideos(outcome, lat) ==
    /\ pc = "gv_generate"
    /\ calls' = Append(calls, Call("generate_videos", OutputGcsPrefix(job_folder_path),
                                  IF outcome.exc = "none" THEN "ok" ELSE outcome.exc))
    /\ IF outcome.exc # "none"
       THEN /\ Finish(VideoErrorResp(outcome.exc))
            /\ UNCHANGED <<operation, start_time, latency>>
       ELSE /\ operation' = outcome.op
            /\ start_time' = now
            /\ latency' = lat
            /\ pc' = "gv_loop"
            /\ resp' = NoResp
    /\ UNCHANGED <<clientVars, serverVars, endpoint, req, user_prompt, num_images,
                   job_id, job_folder_path, image_bytes, i, generated_images>>

\* the timeout check one sleep too generous
TimedOut_OneSleepLate(t, start) == t - start > timeout_seconds + poll_interval

\* time.time() - start_time > timeout_seconds
TimedOut(t, start) == t - start > timeout_seconds

\* the loop with the timeout checked before operation.done
GV_LoopCheck_TimeoutFirst ==
    /\ pc = "gv_loop"
    /\ IF now - start_time > timeout_seconds THEN Finish(ErrorResp(504, "Failed to generate video"))
       ELSE IF operation.done THEN pc' = "gv_result" /\ resp' = NoResp
       ELSE pc' = "gv_sleep" /\ resp' = NoResp
    /\ UNCHANGED <<clientVars, serverVars, endpoint, req, localVars, latency, calls>>

\* `while not operation.done:` and the timeout check that opens the loop body
GV_LoopCheck ==
    /\ pc = "gv_loop"
    /\ IF operation.done THEN pc' = "gv_result" /\ resp' = NoResp
       ELSE IF TimedOut(now, start_time) THEN Finish(VideoErrorResp("TimeoutError"))
       ELSE pc' = "gv_sleep" /\ resp' = NoResp
    /\ UNCHANGED <<clientVars, serverVars, endpoint, req, localVars, latency, calls>>

\* time.sleep(15), operations.get(operation) and the log line after it
GV_SleepPoll(outcome) ==
    /\ pc = "gv_sleep"
    /\ now' = now + poll_interval + latency
    /\ calls' = Append(calls, Call("operations.get", <<>>,
                                  IF outcome.exc = "none" THEN "ok" ELSE outcome.exc))
    /\ IF outcome.exc # "none"
       THEN /\ Finish(VideoErrorResp(outcome.exc))
            /\ UNCHANGED operation
       ELSE /\ operation' = outcome.op
            /\ pc' = "gv_loop"
            /\ resp' = NoResp
    /\ UNCHANGED <<clientVars, uuids, jobs, endpoint, req, user_prompt, num_images,
                   job_id, job_folder_path, image_bytes, i, generated_images, start_time,
                   latency>>

\* `not operation.response or not operation.result.generated_videos`
NoVideo(op) == ~op.response \/ op.videos = <<>>

\* after the loop: the check of the result and the public URL
GV_Result ==
    /\ pc = "gv_result"
    /\ IF NoVideo(operation) THEN Finish(VideoErrorResp("ValueError"))
       ELSE IF operation.videos[1].t # "str" THEN Finish(VideoErrorResp("AttributeError"))
       ELSE Finish(Resp(200, "", "", <<>>, <<>>, PublicVideoUrl(operation.videos[1].s)))
    /\ UNCHANGED <<clientVars, serverVars, endpoint, req, localVars, latency, calls>>

\* ------------------------------------------------------------------ server
\* the response is sent; the handler's locals are gone
Return ==
    /\ pc = "done"
    /\ pc' = "idle"
    /\ endpoint' = "none"
    /\ req' = EmptyBody
    /\ user_prompt' = <<>>
    /\ num_images' = 0
    /\ job_id' = <<>>
    /\ job_folder_path' = <<>>
    /\ image_bytes' = <<>>
    /\ i' = 0
    /\ generated_images' = <<>>
    /\ operation' = NoOp
    /\ start_time' = 0
    /\ latency' = 0
    /\ calls' = <<>>
    /\ resp' = NoResp
    /\ UNCHANGED <<clientVars, serverVars>>

\* a second passes with no request in progress
Tick ==
    /\ pc = "idle"
    /\ now < MaxClock
    /\ now' = now + 1
    /\ UNCHANGED <<clientVars, uuids, jobs, endpoint, pc, req, localVars, latency, calls, resp>>

Next ==
    \/ \E body \in ImageBodies : GI_Begin(body)
    \/ \E o \in UploadOutcomes : GI_UploadSketch(o)
    \/ \E o \in UploadOutcomes : GI_UploadPrompt(o)
    \/ GI_OpenSketch
    \/ \E o \in GenerateOutcomes : GI_Generate(o)
    \/ \E o \in UploadOutcomes : GI_UploadImage(o)
    \/ \E body \in VideoBodies({j.job_id : j \in jobs}) : GV_Begin(body)
    \/ \E o \in ProviderOutcomes(OutputGcsPrefix(job_folder_path)), lat \in Latencies :
          GV_GenerateVideos(o, lat)
    \/ GV_LoopCheck
    \/ \E o \in ProviderOutcomes(OutputGcsPrefix(job_folder_path)) : GV_SleepPoll(o)
    \/ GV_Result
    \/ Return
    \/ Tick

Spec == Init /\ [][Next]_vars

\* a handler that has started keeps running, and a call to a provider returns or raises
HandlerStep ==
    \/ \E o \in UploadOutcomes : GI_UploadSketch(o)
    \/ \E o \in UploadOutcomes : GI_UploadPrompt(o)
    \/ GI_OpenSketch
    \/ \E o \in GenerateOutcomes : GI_Generate(o)
    \/ \E o \in UploadOutcomes : GI_UploadImage(o)
    \/ \E o \in ProviderOutcomes(OutputGcsPrefix(job_folder_path)), lat \in Latencies :
          GV_GenerateVideos(o, lat)
    \/ GV_LoopCheck
    \/ \E o \in ProviderOutcomes(OutputGcsPrefix(job_folder_path)) : GV_SleepPoll(o)
    \/ GV_Result

FairSpec == Spec /\ WF_vars(HandlerStep)

\* ------------------------------------------------------------------ claims
Done(route) == pc = "done" /\ endpoint = route

\* the clients each handler asks for in its first statement
ClientsReady ==
    IF endpoint = "images" THEN gemini_image_client /\ gcs_client
    ELSE veo_video_client /\ gcs_client

Lacks(body, field) == body[field].t = "absent"

\* the request lacks a field its route requires (an empty body lacks all of them)
LacksRequired ==
    \/ endpoint = "images" /\ Lacks(req, "image_data")
    \/ endpoint = "video" /\ (Lacks(req, "selected_image_gcs_uri") \/ Lacks(req, "job_id"))

IsJsonError == resp.error # "" /\ resp.raised = ""

\* C1, as stated: a request that lacks a required field is answered with 400 and a
\* JSON error, whatever the state of the server's clients, and no call to storage
\* or to a provider is made for it.
C1_MissingFieldsAlways400 ==
    (pc = "done" /\ LacksRequired) => (resp.status = 400 /\ IsJsonError /\ calls = <<>>)

\* C1, amended: a request whose body is a JSON object (the empty object included)
\* that lacks a required field is answered with 400 and a JSON error when the
\* clients its handler asks for are initialised, and with 500 and a JSON error when
\* they are not; in both cases no call to storage or to a provider is made.
C1_MissingFields400WhenClientsReady ==
    (pc = "done" /\ req.json = "object" /\ LacksRequired) =>
        /\ calls = <<>>
        /\ IsJsonError
        /\ resp.status = IF ClientsReady THEN 400 ELSE 500

C1_Witness ==
    /\ Done("video")
    /\ ~Lacks(req, "selected_image_gcs_uri")
    /\ Lacks(req, "job_id")
    /\ resp.status = 400

Elapsed == now - start_time

LastCall == calls[Len(calls)]

\* the request ended at a check of the loop that found the operation not done and
\* more than 300 seconds gone: every call before it had returned
TimedOutAtCheck ==
    /\ Done("video")
    /\ calls # <<>>
    /\ LastCall.result = "ok"
    /\ ~operation.done
    /\ Elapsed > timeout_seconds

\* C2, as stated: a loop check that finds the operation not done after more than
\* 300 seconds ends the request with 504, and 504 is returned in that case only.
C2_504IffTimedOutAtCheck ==
    Done("video") => (resp.status = 504 <=> TimedOutAtCheck)

\* C2, amended: a loop check that finds the operation not done after more than 300
\* seconds ends the request with 504; a 504 is returned only then or when a call
\* to the video provider (generate_videos or operations.get) itself raised
\* TimeoutError; and never once the operation has been observed done.
C2_504OnTimeoutError ==
    Done("video") =>
        /\ TimedOutAtCheck => resp.status = 504
        /\ resp.status = 504 =>
              /\ IsJsonError
              /\ ~operation.done
              /\ TimedOutAtCheck \/ (calls # <<>> /\ LastCall.result = "TimeoutError")

C2_Witness == TimedOutAtCheck /\ resp.status = 504 /\ Elapsed = timeout_seconds + poll_interval

\* the request got past the client check and the required-field check
PassedChecks == ClientsReady /\ req.json = "object" /\ ~LacksRequired

\* C3: every request that passes the client check and the required-field check
\* ends in a JSON response: 200, or {"error": ...} with 500 or 504; no exception
\* leaves the handler.
C3_NoExceptionEscapes ==
    (pc = "done" /\ PassedChecks) =>
        /\ resp.raised = ""
        /\ resp.status \in {200, 500, 504}
        /\ resp.status # 200 => IsJsonError

GcsPrefix == GS \o GCS_BUCKET_NAME \o Slash

\* p occurs in s
Contains(s, p) == \E k \in 0..Len(s) : StartsWith(Drop(s, k), p)

\* the uri without its leading gs://<bucket>/
WithoutPrefix(uri) == IF StartsWith(uri, GcsPrefix) THEN Drop(uri, Len(GcsPrefix)) ELSE uri

\* C4: a successful generate_video response carries
\* https://storage.googleapis.com/<bucket>/<object path>, the object path being the
\* video's uri without its gs://<bucket>/ prefix and holding no gs:// scheme; and
\* each entry of a successful generate_images response names one bucket and blob in
\* its public_url and its gcs_uri.
C4_WellFormedUrl ==
    /\ (Done("video") /\ resp.status = 200) =>
          LET path == WithoutPrefix(operation.videos[1].s)
          IN /\ resp.url = <<"https://storage.googleapis.com/">> \o GCS_BUCKET_NAME \o Slash \o path
             /\ ~Contains(path, GS)
    /\ (Done("images") /\ resp.status = 200) =>
          \A k \in 1..Len(resp.images) :
              \E blob \in Stored(calls) :
                  /\ resp.images[k].public_url
                        = <<"https://storage.googleapis.com/">> \o GCS_BUCKET_NAME \o Slash \o blob
                  /\ resp.images[k].gcs_uri = GS \o GCS_BUCKET_NAME \o Slash \o blob

IsPoll(c) == c.op = "operations.get"

Polls == Len(SelectSeq(calls, IsPoll))

\* with a 15 second sleep before each poll, the polls that fit before elapsed > 300
MaxPolls == timeout_seconds \div poll_interval + 1

\* C5: the poll loop terminates: the request that called the video provider
\* returns a response, whatever the operation does; a status poll is issued only
\* after a check that found at most 300 seconds gone; and a request issues at most
\* 21 status polls.
C5_PollLoopTerminates ==
    /\ [](endpoint = "video" => Polls <= MaxPolls)
    /\ [](pc = "gv_sleep" => Elapsed <= timeout_seconds)
    /\ (pc = "gv_generate") ~> (pc = "done")

C5_Witness == Done("video") /\ Polls = MaxPolls /\ resp.status = 504

\* C6: the folder generate_video works out for a job id that generate_images
\* returned is the folder generate_images stored that job's artifacts under.
C6_SameJobFolder ==
    (endpoint = "video" /\ pc = "gv_generate") =>
        \A j \in jobs : j.job_id = job_id => job_folder_path = j.folder

IsGenerate(c) == c.op = "generate_content"

IsImageUpload(c) ==
    /\ c.op = "upload"
    /\ c.arg \notin {SketchBlob(job_folder_path), PromptBlob(job_folder_path)}

\* C7: generate_images issues its generation calls in the order 1, 2, ...,
\* num_images, each once; the first generation or image upload that fails is the
\* last call of the request, which ends with 500 and no images list, and the images
\* uploaded before it stay in the bucket.
C7_NoRetryNoRecovery ==
    endpoint = "images" =>
        LET gen == SelectSeq(calls, IsGenerate)
        IN /\ Len(gen) <= num_images
           /\ \A k \in 1..Len(gen) : gen[k].arg = <<ToString(k)>>
           /\ \A k \in 1..Len(calls) :
                 ((IsGenerate(calls[k]) \/ IsImageUpload(calls[k])) /\ calls[k].result # "ok") =>
                     /\ k = Len(calls)
                     /\ pc = "done"
                     /\ resp.status = 500
                     /\ IsJsonError
                     /\ resp.images = <<>>
                     /\ \A m \in 1..(Len(gen) - 1) :
                           ImageBlob(job_folder_path, m) \in Stored(calls)

C7_Witness ==
    /\ Done("images")
    /\ num_images = 4
    /\ Len(SelectSeq(calls, IsGenerate)) = 3
    /\ LastCall.op = "generate_content"
    /\ LastCall.result = "no_candidates"
    /\ ImageBlob(job_folder_path, 2) \in Stored(calls)
    /\ resp.status = 500

\* what the count field asks for: its integer value when that is 1..4, else 4
RequestedNumImages(v) ==
    IF v.t = "absent" THEN 4
    ELSE IF PyInt(v).ok /\ PyInt(v).n \in 1..4 THEN PyInt(v).n
    ELSE 4

\* C8: a request that gets past the checks and the reading of the prompt runs with
\* num_images in 1..4: the requested count when that converts to an integer in
\* 1..4, and 4 otherwise; a successful response lists num_images entries, the k-th
\* naming <job folder>/images/generated-image-<k>.png.
C8_NumImagesValidated ==
    (Done("images") /\ PassedChecks /\ StripPrompt(req.prompt).ok) =>
        /\ num_images \in 1..4
        /\ num_images = RequestedNumImages(req.num_images)
        /\ resp.status = 200 =>
              /\ Len(resp.images) = num_images
              /\ \A k \in 1..num_images :
                    resp.images[k].gcs_uri
                        = GS \o GCS_BUCKET_NAME \o Slash \o ImageBlob(job_folder_path, k)

\* C9: generate_video answers 200 only for an operation observed done, with a
\* response and at least one video, and the URL comes from the first video; an
\* operation observed done without a response or without videos gets 500; an
\* operation observed done never gets 504, however late it was observed.
C9_SuccessOnlyWithVideo ==
    Done("video") =>
        /\ resp.status = 200 =>
              /\ operation.done /\ operation.response /\ operation.videos # <<>>
              /\ resp.url = PublicVideoUrl(operation.videos[1].s)
        /\ (operation.done /\ (~operation.response \/ operation.videos = <<>>)) =>
              resp.status = 500
        /\ operation.done => resp.status \in {200, 500}

C9_Witness ==
    /\ Done("video")
    /\ operation.done
    /\ Elapsed > timeout_seconds
    /\ resp.status = 200

\* the calls of the request after the uploads of the sketch and the prompt
GenerationCalls ==
    LET isGen(c) == IsGenerate(c) \/ IsImageUpload(c) IN SelectSeq(calls, isGen)

InputUploadFailed ==
    \E k \in 1..Len(calls) :
        /\ calls[k].op = "upload"
        /\ calls[k].arg \in {SketchBlob(job_folder_path), PromptBlob(job_folder_path)}
        /\ calls[k].result # "ok"

\* C10: a sketch or prompt upload that raises does not fail generate_images: a
\* failed sketch upload skips the prompt upload, generation runs all the same, and
\* the response is what the generation calls alone decide: 200 with num_images
\* images when the sketch opens and every generation call and image upload
\* succeeds, 500 otherwise.
C10_InputUploadFailureSwallowed ==
    (endpoint = "images" /\ InputUploadFailed) =>
        /\ calls[1].result # "ok" =>
              \A k \in 1..Len(calls) : calls[k].arg # PromptBlob(job_folder_path)
        /\ pc # "gi_prompt" /\ pc # "gi_sketch"
        /\ pc = "done" =>
              LET g == GenerationCalls
                  allOk == \A k \in 1..Len(g) : g[k].result = "ok"
              IN IF PilCanOpen(image_bytes) /\ allOk
                 THEN /\ Len(g) = 2 * num_images
                      /\ resp.status = 200
                      /\ resp.job_id = job_id
                      /\ Len(resp.images) = num_images
                 ELSE resp.status = 500 /\ IsJsonError

C10_Witness ==
    /\ Done("images")
    /\ calls # <<>>
    /\ calls[1].result # "ok"
    /\ SketchBlob(job_folder_path) \notin Stored(calls)
    /\ PromptBlob(job_folder_path) \notin Stored(calls)
    /\ resp.status = 200

====
